---- MODULE Spec2Model ----
(***************************************************************************)
(* godupes (src/main.go): a two-tier duplicate file detector.              *)
(*                                                                         *)
(*   paths -> FileFromPath -> PathStore keyed by the hash of the first     *)
(*   bytes -> Prune -> hashWorker pool (full-content hash) -> PathStore    *)
(*   keyed by the full hash -> Prune.                                      *)
(*                                                                         *)
(* Two specifications are given over one set of variables:                 *)
(*   Spec       the run of main(): store construction, the two Prune       *)
(*              calls, and the goroutines of the hashing stage;            *)
(*   StoreSpec  the PathStore methods called in any order on one store     *)
(*              and on the store its Prune returned.                       *)
(***************************************************************************)
EXTENDS Integers, Sequences, FiniteSets, TLC

\* ------------------------------------------------------------------ bounds

\* number of files on the file system (paths are 1..NumFiles)
NumFiles == 3
\* longest file, in bytes
MaxLen == 1
\* largest value of the -bytes flag explored
MaxBytes == 2
\* largest value of the -workers flag explored
MaxWorkers == 2
\* longest sequence of method calls explored by StoreSpec
MaxOps == 6

Paths == 1..NumFiles
Byte == {0, 1}

RECURSIVE SeqsUpTo(_)
SeqsUpTo(n) ==
    IF n = 0 THEN {<<>>}
    ELSE LET shorter == SeqsUpTo(n - 1)
         IN  shorter \cup {Append(s, b) : s \in {t \in shorter : Len(t) = n - 1}, b \in Byte}

\* every file content the model explores
Contents == SeqsUpTo(MaxLen)

\* the content of a path no call has opened yet (no file has this content)
Unopened == <<-1>>

\* the contents a path can show when it is opened: any content the first time,
\* the same content from then on (the files are not modified during a run)
Observe(files, path) == IF files[path] = Unopened THEN Contents ELSE {files[path]}

\* the file system after a call that ended `io` found `content` at `path`:
\* only a call that read the file has seen its content
Observed(files, path, content, io) ==
    IF io = "ok" THEN [files EXCEPT ![path] = content] ELSE files

\* ------------------------------------------------------------------ hashing

\* metro.Hash64(data, 0), modelled as collision-free: an injective numbering
\* of byte strings (length included), never 0, the zero value of a uint64
\* field that was not set.
HashBase == Cardinality(Byte) + 1

RECURSIVE Enc(_)
Enc(data) == IF data = <<>> THEN 0 ELSE (Head(data) + 1) + HashBase * Enc(Tail(data))

Hash64(data) == 1 + Enc(data)

\* []byte(path): a path is identified by its number
PathBytes(path) == <<path>>

\* ------------------------------------------------------------------ File

\* type File struct; the zero value File{}
File(path, size, bytesHash, fullHash) ==
    [path |-> path, size |-> size, bytesHash |-> bytesHash, fullHash |-> fullHash]

ZeroFile == File(0, 0, 0, 0)

\* make([]byte, n): n zero bytes
ZeroBytes(n) == [i \in 1..n |-> 0]

\* file.ReadAt(buf, 0): the first min(len(buf), size) bytes of buf are
\* overwritten with the file's bytes, the rest of buf keeps its value
ReadAt(buf, content) ==
    [i \in 1..Len(buf) |-> IF i <= Len(content) THEN content[i] ELSE buf[i]]

\* outcomes of the system calls made for one file
IOOutcomes == {"ok", "openfail", "statfail", "readfail"}

ErrNone == "nil"
ErrIO == "io error"
ErrPathPresent == "Path already present"
NilDeref == "panic: nil pointer dereference"

\* FileFromPath(path, buffSize): the record and the error returned, or the
\* panic raised, when the file has `content` and the system calls end `io`
FileFromPath(path, buffSize, content, io) ==
    LET firstBytes == ReadAt(ZeroBytes(buffSize), content)
    IN  CASE io = "openfail" -> [file |-> ZeroFile, err |-> ErrIO]
          [] io = "readfail" -> [file |-> ZeroFile, err |-> ErrIO]
          [] io = "statfail" -> [file |-> ZeroFile, err |-> NilDeref]
          [] OTHER -> [file |-> File(path, Len(content), Hash64(firstBytes), 0),
                       err |-> ErrNone]

\* ------------------------------------------------------------------ slices

\* Go slices: a slice is a window (arr, len) on a backing array of the heap;
\* heap[a] is the a-th array allocated, and its length is the capacity.
\* Two slices with the same arr share their elements.
NilSlice == [arr |-> 0, len |-> 0]

Cap(h, s) == IF s.arr = 0 THEN 0 ELSE Len(h[s.arr])

\* the elements a slice shows
Elems(h, s) == IF s.arr = 0 THEN <<>> ELSE SubSeq(h[s.arr], 1, s.len)

\* append(s, f): in place when the capacity allows, else into a new array of
\* twice the capacity (1 for an empty slice)
GoAppend(h, s, f) ==
    IF s.len < Cap(h, s)
    THEN [heap |-> [h EXCEPT ![s.arr][s.len + 1] = f],
          slice |-> [arr |-> s.arr, len |-> s.len + 1]]
    ELSE LET newcap == IF Cap(h, s) = 0 THEN 1 ELSE 2 * Cap(h, s)
             old == Elems(h, s)
             fresh == [i \in 1..newcap |->
                         IF i <= s.len THEN old[i]
                         ELSE IF i = s.len + 1 THEN f ELSE ZeroFile]
         IN  [heap |-> Append(h, fresh),
              slice |-> [arr |-> Len(h) + 1, len |-> s.len + 1]]

\* ------------------------------------------------------------------ maps

\* map[uint64][]File: a function whose domain is the set of keys present
EmptyMap == [k \in {} |-> NilSlice]

\* m[k] as an expression: the zero value when k is absent
MapGet(m, k) == IF k \in DOMAIN m THEN m[k] ELSE NilSlice

\* m[k] = v
MapPut(m, k, v) == [x \in DOMAIN m \cup {k} |-> IF x = k THEN v ELSE m[x]]

RECURSIVE SumOver(_, _)
\* the sum of a function's values over a finite set of its arguments
SumOver(f, S) ==
    IF S = {} THEN 0
    ELSE LET x == CHOOSE y \in S : TRUE IN f[x] + SumOver(f, S \ {x})

\* ------------------------------------------------------------------ PathStore

\* type PathStore struct; its sync.Mutex is the variable mu where AddFile is
\* called from several goroutines, and the atomicity of the sections it guards
\* where one goroutine makes the calls
PathStore(paths, bytesPerFile, pathsAdded) ==
    [paths |-> paths, bytesPerFile |-> bytesPerFile, pathsAdded |-> pathsAdded]

\* NewPathStore before its loop: an empty store
EmptyStore(bytesPerFile) == PathStore(EmptyMap, bytesPerFile, {})

\* (p *PathStore) PathAdded(path)
PathAdded(p, path) == Hash64(PathBytes(path)) \in p.pathsAdded

\* (p *PathStore) AddFile(s): the store, the heap and the error after the call
AddFile(p, h, s, content, io) ==
    IF PathAdded(p, s)
    THEN [store |-> p, heap |-> h, err |-> ErrPathPresent]
    ELSE LET r == FileFromPath(s, p.bytesPerFile, content, io)
         IN  IF r.err # ErrNone
             THEN [store |-> p, heap |-> h, err |-> r.err]
             ELSE LET a == GoAppend(h, MapGet(p.paths, r.file.bytesHash), r.file)
                  IN  [store |-> [p EXCEPT !.paths = MapPut(@, r.file.bytesHash, a.slice)],
                       heap |-> a.heap,
                       err |-> ErrNone]

\* (p *PathStore) FileCount()
FileCount(p) == SumOver([k \in DOMAIN p.paths |-> p.paths[k].len], DOMAIN p.paths)

\* (p *PathStore) FileSetCount()
FileSetCount(p) == Cardinality(DOMAIN p.paths)

\* the groups of a map the test of Prune keeps
LongGroups(m) == [k \in {x \in DOMAIN m : m[x].len > 1} |-> m[k]]

\* Prune as it would be with `len(v) > 0` for its test
PruneKeepsSingletons(p) ==
    [newStore |-> PathStore([k \in {x \in DOMAIN p.paths : p.paths[x].len > 0} |-> p.paths[k]],
                            p.bytesPerFile, {}),
     p |-> p]

\* (p *PathStore) Prune(): the store returned (newStore), which shares the
\* slices of the groups it keeps, and the receiver after the call (p)
Prune(p) ==
    [newStore |-> PathStore(LongGroups(p.paths), p.bytesPerFile, {}),
     p |-> p]

\* TotalSizeDups as it would be counting every file of a group
TotalSizeAll(p, h) ==
    SumOver([k \in DOMAIN p.paths |-> p.paths[k].len * Elems(h, p.paths[k])[1].size],
            DOMAIN p.paths)

\* (p *PathStore) TotalSizeDups()
TotalSizeDups(p, h) ==
    SumOver([k \in DOMAIN p.paths |->
                (p.paths[k].len - 1) * Elems(h, p.paths[k])[1].size],
            DOMAIN p.paths)

\* (p *PathStore) Summarize(): the three numbers of the summary line
Summarize(p, h) ==
    <<FileCount(p), FileSetCount(p), TotalSizeDups(p, h) \div (1024 * 1024)>>

\* what a store holds: its groups, as sequences of records, by key
Groups(p, h) == [k \in DOMAIN p.paths |-> Elems(h, p.paths[k])]

\* the paths of the records a store holds
StorePaths(p, h) ==
    UNION {{Elems(h, p.paths[k])[i].path : i \in 1..p.paths[k].len} : k \in DOMAIN p.paths}

\* main.go:276 with the record filed under its prefix hash
CollectedByPrefix(p, h, f) ==
    LET a == GoAppend(h, MapGet(p.paths, f.bytesHash), f)
    IN  [store |-> [p EXCEPT !.paths = MapPut(@, f.bytesHash, a.slice)], heap |-> a.heap]

\* main.go:276: hashed.paths[f.fullHash] = append(hashed.paths[f.fullHash], f)
Collected(p, h, f) ==
    LET a == GoAppend(h, MapGet(p.paths, f.fullHash), f)
    IN  [store |-> [p EXCEPT !.paths = MapPut(@, f.fullHash, a.slice)], heap |-> a.heap]

\* ------------------------------------------------------------------ state

VARIABLES
    fs,           \* the file system: the content of every path opened so far
    heap,         \* the backing arrays of all slices
    flags,        \* main: the parsed command line
    pc,           \* main: the statement main() is at
    idx,          \* main: the index of the loop main() is in
    store,        \* NewPathStore's store / fromSTDIn's themap, under construction
    bytesMatch,   \* main: bytesMatch
    newStore,     \* main: newStore
    hashed,       \* main: hashed
    hashedStore,  \* main: hashedStore
    wg,           \* main: the counter of the sync.WaitGroup
    hashqClosed,  \* main: hashq has been closed (hashq is unbuffered)
    resultqClosed,\* main: resultq has been closed (resultq is unbuffered)
    closer,       \* the goroutine of main.go:253: its position
    feeder,       \* the goroutine of main.go:261: its position in the two loops
    workers,      \* the hashWorker goroutines: position and the File held
    out,          \* what the process has printed
    proc,         \* the process: running, or how it ended
    reads,        \* history: how often hashWorker has read each path in full
    recv,         \* StoreSpec: the store the methods are called on
    pruned,       \* StoreSpec: the store recv.Prune() returned, once called
    call,         \* StoreSpec: the last method call and what it returned
    callers,      \* ConcSpec: the goroutines calling recv.AddFile, one per path
    mu            \* ConcSpec: the sync.Mutex of recv: 0, or the caller holding it

mainVars == <<flags, pc, idx, store, bytesMatch, newStore, hashed, hashedStore, wg,
              hashqClosed, resultqClosed, closer, feeder, workers, out, proc, reads>>
storeVars == <<recv, pruned, call>>
concVars == <<callers, mu>>
vars == <<fs, heap, mainVars, storeVars, concVars>>

\* a *PathStore variable that was not assigned yet
NoStore == EmptyStore(0)

Workers == 1..MaxWorkers

\* ------------------------------------------------------------------ StoreSpec

\* no method was called yet; a call is recorded with what the file system
\* did during it (io) and what it returned (err)
NoCall == [n |-> 0, op |-> "none", path |-> 0, io |-> "ok", err |-> ErrNone]

MainIdle ==
    /\ flags = [stdin |-> FALSE, numBytes |-> 0, numWorkers |-> 1, summarize |-> FALSE]
    /\ pc = "idle" /\ idx = 0
    /\ store = NoStore /\ bytesMatch = NoStore /\ newStore = NoStore
    /\ hashed = NoStore /\ hashedStore = NoStore
    /\ wg = 0 /\ hashqClosed = FALSE /\ resultqClosed = FALSE
    /\ closer = "unstarted"
    /\ feeder = [pc |-> "unstarted", keys |-> {}, key |-> 0, i |-> 0]
    /\ workers = [w \in Workers |-> [pc |-> "unstarted", f |-> ZeroFile]]
    /\ out = <<>> /\ proc = "running"
    /\ reads = [x \in Paths |-> 0]

\* no goroutine has called AddFile and the mutex is free
ConcIdle ==
    /\ callers = [x \in Paths |-> [pc |-> "idle", f |-> ZeroFile, v |-> NilSlice,
                                   err |-> ErrNone]]
    /\ mu = 0

\* a store made by NewPathStore(nil, n), before any method call
StoreInit ==
    /\ fs = [x \in Paths |-> Unopened]
    /\ heap = <<>>
    /\ \E n \in 0..MaxBytes : recv = EmptyStore(n)
    /\ pruned = [valid |-> FALSE, store |-> NoStore]
    /\ call = NoCall
    /\ MainIdle
    /\ ConcIdle

\* a method call can be made: the bound is not reached and no call has failed
\* (NewPathStore and fromSTDIn both stop at the first error of AddFile)
CanCall == call.n < MaxOps /\ call.err = ErrNone

\* recv.AddFile(path)
SAddFile ==
    /\ CanCall
    /\ \E path \in Paths, io \in IOOutcomes :
      \E content \in (IF io = "ok" THEN Observe(fs, path) ELSE {<<>>}) :
         LET r == AddFile(recv, heap, path, content, io)
         IN  /\ recv' = r.store
             /\ fs' = Observed(fs, path, content, io)
             /\ heap' = r.heap
             /\ call' = [n |-> call.n + 1, op |-> "AddFile", path |-> path, io |-> io,
                         err |-> r.err]
    /\ UNCHANGED <<pruned, mainVars, concVars>>

\* recv.Prune()
SPrune ==
    /\ CanCall
    /\ pruned' = [valid |-> TRUE, store |-> Prune(recv).newStore]
    /\ recv' = Prune(recv).p
    /\ call' = [n |-> call.n + 1, op |-> "Prune", path |-> 0, io |-> "ok", err |-> ErrNone]
    /\ UNCHANGED <<fs, heap, mainVars, concVars>>

\* AddFile(path) on the store recv.Prune() returned
SAddFilePruned ==
    /\ CanCall
    /\ pruned.valid
    /\ \E path \in Paths, io \in IOOutcomes :
      \E content \in (IF io = "ok" THEN Observe(fs, path) ELSE {<<>>}) :
         LET r == AddFile(pruned.store, heap, path, content, io)
         IN  /\ pruned' = [pruned EXCEPT !.store = r.store]
             /\ fs' = Observed(fs, path, content, io)
             /\ heap' = r.heap
             /\ call' = [n |-> call.n + 1, op |-> "AddFilePruned", path |-> path, io |-> io,
                         err |-> r.err]
    /\ UNCHANGED <<recv, mainVars, concVars>>

StoreNext == SAddFile \/ SPrune \/ SAddFilePruned

StoreSpec == StoreInit /\ [][StoreNext]_vars

\* ------------------------------------------------------------------ ConcSpec

\* AddFile called from several goroutines at once on one store, each with a
\* path of its own: the statements of AddFile, one step each.

\* a goroutine has panicked: the process is gone
Panicked == \E x \in Paths : callers[x].pc = "panicked"

\* p.Lock() with the lock never held
LockNeverHeld(m) == TRUE

\* p.Lock() can return: the mutex is free
CanLock(m) == m = 0

ConcInit ==
    /\ fs = [x \in Paths |-> Unopened]
    /\ heap = <<>>
    /\ \E n \in 0..MaxBytes : recv = EmptyStore(n)
    /\ pruned = [valid |-> FALSE, store |-> NoStore]
    /\ call = NoCall
    /\ MainIdle
    /\ ConcIdle

\* go recv.AddFile(x), up to `if p.PathAdded(s)`: pathsAdded is read without
\* the lock
CCall ==
    /\ ~Panicked
    /\ \E x \in Paths :
         /\ callers[x].pc = "idle"
         /\ callers' = IF PathAdded(recv, x)
                       THEN [callers EXCEPT ![x].pc = "returned", ![x].err = ErrPathPresent]
                       ELSE [callers EXCEPT ![x].pc = "extract"]
    /\ UNCHANGED <<fs, heap, recv, pruned, call, mu, mainVars>>

\* f, err := FileFromPath(s, p.bytesPerFile); if err != nil { return err }
CExtract ==
    /\ ~Panicked
    /\ \E x \in Paths, io \in IOOutcomes :
      \E content \in (IF io = "ok" THEN Observe(fs, x) ELSE {<<>>}) :
         LET r == FileFromPath(x, recv.bytesPerFile, content, io)
         IN  /\ callers[x].pc = "extract"
             /\ fs' = Observed(fs, x, content, io)
             /\ callers' = CASE r.err = ErrNone ->
                                   [callers EXCEPT ![x].pc = "lock", ![x].f = r.file]
                              [] r.err = NilDeref ->
                                   [callers EXCEPT ![x].pc = "panicked", ![x].err = r.err]
                              [] OTHER ->
                                   [callers EXCEPT ![x].pc = "returned", ![x].err = r.err]
    /\ UNCHANGED <<heap, recv, pruned, call, mu, mainVars>>

\* p.Lock()
CLock ==
    /\ ~Panicked
    /\ CanLock(mu)
    /\ \E x \in Paths :
         /\ callers[x].pc = "lock"
         /\ mu' = x
         /\ callers' = [callers EXCEPT ![x].pc = "load"]
    /\ UNCHANGED <<fs, heap, recv, pruned, call, mainVars>>

\* the right-hand side of main.go:106 reads p.paths[f.bytesHash]
CLoad ==
    /\ ~Panicked
    /\ \E x \in Paths :
         /\ callers[x].pc = "load"
         /\ callers' = [callers EXCEPT ![x].pc = "append",
                                        ![x].v = MapGet(recv.paths, callers[x].f.bytesHash)]
    /\ UNCHANGED <<fs, heap, recv, pruned, call, mu, mainVars>>

\* main.go:106: append(v, f) and the assignment to p.paths[f.bytesHash]
CAppend ==
    /\ ~Panicked
    /\ \E x \in Paths :
         /\ callers[x].pc = "append"
         /\ LET a == GoAppend(heap, callers[x].v, callers[x].f)
            IN  /\ heap' = a.heap
                /\ recv' = [recv EXCEPT !.paths = MapPut(@, callers[x].f.bytesHash, a.slice)]
         /\ callers' = [callers EXCEPT ![x].pc = "unlock", ![x].v = NilSlice]
    /\ UNCHANGED <<fs, pruned, call, mu, mainVars>>

\* p.Unlock(); return nil
CUnlock ==
    /\ ~Panicked
    /\ \E x \in Paths :
         /\ callers[x].pc = "unlock"
         /\ mu' = 0
         /\ callers' = [callers EXCEPT ![x].pc = "returned", ![x].err = ErrNone]
    /\ UNCHANGED <<fs, heap, recv, pruned, call, mainVars>>

ConcNext == CCall \/ CExtract \/ CLock \/ CLoad \/ CAppend \/ CUnlock

ConcSpec == ConcInit /\ [][ConcNext]_vars

\* ------------------------------------------------------------------ main()

\* errOut(e), and a panic: the line printed and the way the process ends
ProcAfter(err) == IF err = NilDeref THEN "panic" ELSE "exit1"

\* the longest input fromSTDIn is given, in lines
MaxLines == NumFiles

\* dirWalk(start): the regular files under the starting path, in walk order
dirWalk == [i \in 1..NumFiles |-> i]

\* the command lines explored; -bytes is not read when -stdin is given
Flags ==
    {f \in [stdin : BOOLEAN, numBytes : 0..MaxBytes, numWorkers : 1..MaxWorkers,
            summarize : BOOLEAN] : f.stdin => f.numBytes = MaxBytes}

Init ==
    /\ fs = [x \in Paths |-> Unopened]
    /\ heap = <<>>
    /\ flags \in Flags
    /\ pc = "build" /\ idx = 1
    /\ store = IF flags.stdin THEN EmptyStore(0) ELSE EmptyStore(flags.numBytes)
    /\ bytesMatch = NoStore /\ newStore = NoStore
    /\ hashed = NoStore /\ hashedStore = NoStore
    /\ wg = 0 /\ hashqClosed = FALSE /\ resultqClosed = FALSE
    /\ closer = "unstarted"
    /\ feeder = [pc |-> "unstarted", keys |-> {}, key |-> 0, i |-> 0]
    /\ workers = [w \in Workers |-> [pc |-> "unstarted", f |-> ZeroFile]]
    /\ out = <<>> /\ proc = "running"
    /\ reads = [x \in Paths |-> 0]
    /\ recv = NoStore /\ pruned = [valid |-> FALSE, store |-> NoStore] /\ call = NoCall
    /\ ConcIdle

\* store.AddFile(path) in a loop of main's thread: the record is added, or
\* the error is printed and the process ends (errOut), or it panics
AddOrExit(path, io, content, nextIdx) ==
    LET r == AddFile(store, heap, path, content, io)
    IN  /\ fs' = Observed(fs, path, content, io)
        /\ store' = r.store
        /\ heap' = r.heap
        /\ idx' = nextIdx
        /\ IF r.err = ErrNone
           THEN UNCHANGED <<out, proc>>
           ELSE out' = Append(out, <<"error", r.err>>) /\ proc' = ProcAfter(r.err)

\* fromSTDIn: one scr.Scan() that yields a line, and the AddFile of that line
StdinAddFile ==
    /\ proc = "running" /\ pc = "build" /\ flags.stdin
    /\ idx <= MaxLines
    /\ \E path \in Paths, io \in IOOutcomes :
         \E content \in (IF io = "ok" THEN Observe(fs, path) ELSE {<<>>}) :
            AddOrExit(path, io, content, idx + 1)
    /\ UNCHANGED <<flags, pc, bytesMatch, newStore, hashed, hashedStore, wg, hashqClosed,
                   resultqClosed, closer, feeder, workers, reads, storeVars, concVars>>

\* fromSTDIn: scr.Scan() reports the end of the input; return themap.Prune()
StdinEOF ==
    /\ proc = "running" /\ pc = "build" /\ flags.stdin
    /\ bytesMatch' = Prune(store).newStore
    /\ store' = Prune(store).p
    /\ pc' = "summary"
    /\ UNCHANGED <<fs, heap, flags, idx, newStore, hashed, hashedStore, wg,
                   hashqClosed, resultqClosed, closer, feeder, workers, out, proc, reads,
                   storeVars, concVars>>

\* NewPathStore: one iteration of its loop over the walked paths
WalkAddFile ==
    /\ proc = "running" /\ pc = "build" /\ ~flags.stdin
    /\ idx <= Len(dirWalk)
    /\ \E io \in IOOutcomes :
         \E content \in (IF io = "ok" THEN Observe(fs, dirWalk[idx]) ELSE {<<>>}) :
            AddOrExit(dirWalk[idx], io, content, idx + 1)
    /\ UNCHANGED <<flags, pc, bytesMatch, newStore, hashed, hashedStore, wg, hashqClosed,
                   resultqClosed, closer, feeder, workers, reads, storeVars, concVars>>

\* NewPathStore returns the store: bytesMatch, err = NewPathStore(...)
WalkDone ==
    /\ proc = "running" /\ pc = "build" /\ ~flags.stdin
    /\ idx > Len(dirWalk)
    /\ bytesMatch' = store
    /\ pc' = "summary"
    /\ UNCHANGED <<fs, heap, flags, idx, store, newStore, hashed, hashedStore, wg,
                   hashqClosed, resultqClosed, closer, feeder, workers, out, proc, reads,
                   storeVars, concVars>>

\* fmt.Println(bytesMatch.Summarize())
PrintBytesMatch ==
    /\ proc = "running" /\ pc = "summary"
    /\ out' = Append(out, <<"summary", Summarize(bytesMatch, heap)>>)
    /\ pc' = "prune"
    /\ UNCHANGED <<fs, heap, flags, idx, store, bytesMatch, newStore, hashed, hashedStore,
                   wg, hashqClosed, resultqClosed, closer, feeder, workers, proc, reads,
                   storeVars, concVars>>

\* newStore := bytesMatch.Prune(); fmt.Println(newStore.Summarize())
PruneBytesMatch ==
    /\ proc = "running" /\ pc = "prune"
    /\ newStore' = Prune(bytesMatch).newStore
    /\ bytesMatch' = Prune(bytesMatch).p
    /\ out' = Append(out, <<"summary", Summarize(Prune(bytesMatch).newStore, heap)>>)
    /\ pc' = "stage"
    /\ UNCHANGED <<fs, heap, flags, idx, store, hashed, hashedStore, wg,
                   hashqClosed, resultqClosed, closer, feeder, workers, proc, reads,
                   storeVars, concVars>>

\* main.go:250-268: the closer goroutine and the feeder goroutine are
\* started and hashed is made; a started goroutine runs when it is scheduled
StartStage ==
    /\ proc = "running" /\ pc = "stage"
    /\ closer' = "wait"
    /\ hashed' = EmptyStore(0)
    /\ out' = Append(out, <<"got the hashed map">>)
    /\ feeder' = [pc |-> "range", keys |-> DOMAIN newStore.paths, key |-> 0, i |-> 0]
    /\ idx' = 0
    /\ pc' = "spawn"
    /\ UNCHANGED <<fs, heap, flags, store, bytesMatch, newStore, hashedStore, wg,
                   hashqClosed, resultqClosed, workers, proc, reads, storeVars, concVars>>

\* one iteration of the loop of main.go:270: wg.Add(1); go hashWorker(...)
SpawnWorker ==
    /\ proc = "running" /\ pc = "spawn"
    /\ idx < flags.numWorkers
    /\ wg' = wg + 1
    /\ workers' = [workers EXCEPT ![idx + 1].pc = "recv"]
    /\ idx' = idx + 1
    /\ pc' = IF idx + 1 < flags.numWorkers THEN "spawn" ELSE "collect"
    /\ UNCHANGED <<fs, heap, flags, store, bytesMatch, newStore, hashed, hashedStore,
                   hashqClosed, resultqClosed, closer, feeder, out, proc, reads, storeVars, concVars>>

\* ------------------------------------------------------------------ goroutines

\* the closer goroutine: wg.Wait() returns when the counter is zero
CloserWait ==
    /\ proc = "running" /\ closer = "wait"
    /\ wg = 0
    /\ closer' = "close"
    /\ UNCHANGED <<fs, heap, flags, pc, idx, store, bytesMatch, newStore, hashed,
                   hashedStore, wg, hashqClosed, resultqClosed, feeder, workers, out, proc,
                   reads, storeVars, concVars>>

\* the closer goroutine: close(resultq)
CloserClose ==
    /\ proc = "running" /\ closer = "close"
    /\ resultqClosed' = TRUE
    /\ closer' = "done"
    /\ UNCHANGED <<fs, heap, flags, pc, idx, store, bytesMatch, newStore, hashed,
                   hashedStore, wg, hashqClosed, feeder, workers, out, proc, reads,
                   storeVars, concVars>>

\* the feeder goroutine: the outer range takes the next key of newStore.paths;
\* Go iterates a map in an unspecified order
FeederNextKey ==
    /\ proc = "running" /\ feeder.pc = "range"
    /\ \E k \in feeder.keys :
         feeder' = [pc |-> "send", keys |-> feeder.keys \ {k}, key |-> k, i |-> 1]
    /\ UNCHANGED <<fs, heap, flags, pc, idx, store, bytesMatch, newStore, hashed,
                   hashedStore, wg, hashqClosed, resultqClosed, closer, workers, out, proc,
                   reads, storeVars, concVars>>

\* hashq <- f meets f := range inq of a worker: hashq is unbuffered, so the
\* send and the receive are one step
FeederSend ==
    /\ proc = "running" /\ feeder.pc = "send"
    /\ \E w \in Workers :
         /\ workers[w].pc = "recv"
         /\ LET v == newStore.paths[feeder.key]
            IN  /\ workers' = [workers EXCEPT
                                  ![w] = [pc |-> "read", f |-> Elems(heap, v)[feeder.i]]]
                /\ feeder' = IF feeder.i < v.len
                             THEN [feeder EXCEPT !.i = @ + 1]
                             ELSE [feeder EXCEPT !.pc = "range", !.key = 0, !.i = 0]
    /\ UNCHANGED <<fs, heap, flags, pc, idx, store, bytesMatch, newStore, hashed,
                   hashedStore, wg, hashqClosed, resultqClosed, closer, out, proc, reads,
                   storeVars, concVars>>

\* the feeder goroutine: close(hashq) after the loops
FeederClose ==
    /\ proc = "running" /\ feeder.pc = "range"
    /\ feeder.keys = {}
    /\ hashqClosed' = TRUE
    /\ feeder' = [feeder EXCEPT !.pc = "done"]
    /\ UNCHANGED <<fs, heap, flags, pc, idx, store, bytesMatch, newStore, hashed,
                   hashedStore, wg, resultqClosed, closer, workers, out, proc, reads,
                   storeVars, concVars>>

\* hashWorker: ioutil.ReadFile(f.path) succeeds and f.fullHash is set, or
\* it fails (the file was removed or made unreadable after it was listed)
WorkerRead ==
    /\ proc = "running"
    /\ \E w \in Workers :
         /\ workers[w].pc = "read"
         /\ \E ok \in BOOLEAN :
              IF ok
              THEN /\ workers' = [workers EXCEPT
                                    ![w].pc = "send",
                                    ![w].f.fullHash = Hash64(fs[workers[w].f.path])]
                   /\ reads' = [reads EXCEPT ![workers[w].f.path] = @ + 1]
              ELSE /\ workers' = [workers EXCEPT ![w].pc = "failed"]
                   /\ UNCHANGED reads
    /\ UNCHANGED <<fs, heap, flags, pc, idx, store, bytesMatch, newStore, hashed,
                   hashedStore, wg, hashqClosed, resultqClosed, closer, feeder, out, proc,
                   storeVars, concVars>>

\* hashWorker: errOut(err) after a failed read: print, os.Exit(1)
WorkerErrOut ==
    /\ proc = "running"
    /\ \E w \in Workers : workers[w].pc = "failed"
    /\ out' = Append(out, <<"error", ErrIO>>)
    /\ proc' = "exit1"
    /\ UNCHANGED <<fs, heap, flags, pc, idx, store, bytesMatch, newStore, hashed,
                   hashedStore, wg, hashqClosed, resultqClosed, closer, feeder, workers,
                   reads, storeVars, concVars>>

\* res <- f meets f := range resultq of main: resultq is unbuffered;
\* hashed.paths[f.fullHash] = append(hashed.paths[f.fullHash], f)
Collect ==
    /\ proc = "running" /\ pc = "collect"
    /\ ~resultqClosed
    /\ \E w \in Workers :
         /\ workers[w].pc = "send"
         /\ LET c == Collected(hashed, heap, workers[w].f)
            IN  hashed' = c.store /\ heap' = c.heap
         /\ workers' = [workers EXCEPT ![w].pc = "recv"]
    /\ UNCHANGED <<fs, flags, pc, idx, store, bytesMatch, newStore, hashedStore, wg,
                   hashqClosed, resultqClosed, closer, feeder, out, proc, reads, storeVars, concVars>>

\* hashWorker: res <- f on the closed resultq panics
WorkerSendClosed ==
    /\ proc = "running"
    /\ resultqClosed
    /\ \E w \in Workers : workers[w].pc = "send"
    /\ out' = Append(out, <<"error", "panic: send on closed channel">>)
    /\ proc' = "panic"
    /\ UNCHANGED <<fs, heap, flags, pc, idx, store, bytesMatch, newStore, hashed,
                   hashedStore, wg, hashqClosed, resultqClosed, closer, feeder, workers,
                   reads, storeVars, concVars>>

\* hashWorker: range inq ends on the closed hashq; the deferred wg.Done()
WorkerExit ==
    /\ proc = "running"
    /\ hashqClosed
    /\ \E w \in Workers :
         /\ workers[w].pc = "recv"
         /\ workers' = [workers EXCEPT ![w].pc = "done"]
    /\ wg' = wg - 1
    /\ UNCHANGED <<fs, heap, flags, pc, idx, store, bytesMatch, newStore, hashed,
                   hashedStore, hashqClosed, resultqClosed, closer, feeder, out, proc,
                   reads, storeVars, concVars>>

\* main: range resultq ends on the closed resultq; hashedStore := hashed.Prune()
CollectDone ==
    /\ proc = "running" /\ pc = "collect"
    /\ resultqClosed
    /\ hashedStore' = Prune(hashed).newStore
    /\ hashed' = Prune(hashed).p
    /\ pc' = "report"
    /\ UNCHANGED <<fs, heap, flags, idx, store, bytesMatch, newStore, wg,
                   hashqClosed, resultqClosed, closer, feeder, workers, out, proc, reads,
                   storeVars, concVars>>

\* main: if *summarize { fmt.Println(hashedStore.Summarize()) }; main returns
Report ==
    /\ proc = "running" /\ pc = "report"
    /\ out' = IF flags.summarize
              THEN Append(out, <<"summary", Summarize(hashedStore, heap)>>)
              ELSE out
    /\ pc' = "done"
    /\ proc' = "exit0"
    /\ UNCHANGED <<fs, heap, flags, idx, store, bytesMatch, newStore, hashed, hashedStore,
                   wg, hashqClosed, resultqClosed, closer, feeder, workers, reads,
                   storeVars, concVars>>

Next ==
    \/ StdinAddFile \/ StdinEOF \/ WalkAddFile \/ WalkDone
    \/ PrintBytesMatch \/ PruneBytesMatch \/ StartStage \/ SpawnWorker
    \/ CloserWait \/ CloserClose
    \/ FeederNextKey \/ FeederSend \/ FeederClose
    \/ WorkerRead \/ WorkerErrOut \/ WorkerSendClosed \/ WorkerExit
    \/ Collect \/ CollectDone \/ Report

Spec == Init /\ [][Next]_vars

\* main() under the Go scheduler: a goroutine that can take a step is not
\* held back forever, so a run goes on while any step is possible
FairSpec == Spec /\ WF_vars(Next)

\* ------------------------------------------------------------------ properties

\* how many records of a group have this path
CountInGroup(g, path) == Cardinality({i \in 1..Len(g) : g[i].path = path})

\* how many records of a store have this path
CountIn(p, h, path) ==
    SumOver([k \in DOMAIN p.paths |-> CountInGroup(Elems(h, p.paths[k]), path)],
            DOMAIN p.paths)

\* a group as the bag of its member paths
BagOf(g) == [x \in Paths |-> CountInGroup(g, x)]

\* the groups of a store, each as the bag of its member paths
GroupBags(p, h) == {BagOf(Elems(h, p.paths[k])) : k \in DOMAIN p.paths}

\* the prefix-digest store is complete: main() is past its construction
Built == pc \notin {"idle", "build"}

\* how many records with this path are in groups of two or more records of
\* the prefix-digest store
Survivors(path) ==
    SumOver([k \in DOMAIN store.paths |->
                IF store.paths[k].len >= 2
                THEN CountInGroup(Elems(heap, store.paths[k]), path) ELSE 0],
            DOMAIN store.paths)

\* the input paths are pairwise distinct, as those of a directory walk are
DistinctInputs == \A x \in Paths : CountIn(store, heap, x) <= 1

\* a read of hashWorker has failed
ReadFailed == \E w \in Workers : workers[w].pc = "failed"

\* ---- C1
\* C1: in the final store (hashedStore, the content-digest store after Prune)
\* any two records of one group have the same content digest and name files
\* with the same bytes.
FinalGroupsIdentical ==
    pc \in {"report", "done"} =>
        \A k \in DOMAIN hashedStore.paths :
            LET g == Elems(heap, hashedStore.paths[k])
            IN  \A i, j \in 1..Len(g) :
                    /\ g[i].fullHash = g[j].fullHash
                    /\ fs[g[i].path] = fs[g[j].path]

\* a run that completed with a final group of two different paths, while a
\* third file with the same prefix digest and other bytes was hashed too
FinalGroupReached ==
    /\ proc = "exit0"
    /\ \E k \in DOMAIN hashedStore.paths :
           LET g == Elems(heap, hashedStore.paths[k])
           IN  \E i, j \in 1..Len(g) : g[i].path # g[j].path
    /\ \E x, y \in Paths :
           /\ reads[x] > 0 /\ reads[y] > 0
           /\ fs[x] # fs[y]

\* ---- C2
\* C2: in the store Prune returns for a store of distinct files, no record
\* appears whose (size, first bytesPerFile bytes) pair no other file shares.
FirstBytes(content, n) == SubSeq(content, 1, IF Len(content) < n THEN Len(content) ELSE n)

UniquePrefixPruned ==
    (call.op = "Prune" /\ \A x \in Paths : CountIn(recv, heap, x) <= 1) =>
        \A x \in StorePaths(recv, heap) :
            (\A y \in StorePaths(recv, heap) \ {x} :
                <<Len(fs[x]), FirstBytes(fs[x], recv.bytesPerFile)>>
                    # <<Len(fs[y]), FirstBytes(fs[y], recv.bytesPerFile)>>)
            => x \notin StorePaths(pruned.store, heap)

\* ---- C3
\* C3: resultq is closed only after hashq was closed and every worker of the
\* pool has returned: none is still to be started, running, or about to send.
ResultqClosedAfterJoin ==
    resultqClosed =>
        /\ hashqClosed
        /\ \A w \in 1..flags.numWorkers : workers[w].pc = "done"

\* ---- C4
\* C4: when the collecting loop has ended and no read failed, every record of
\* newStore was read once and is once in hashed, under its content digest
\* (stated for input paths that are pairwise distinct).
EveryRecordCollectedOnce ==
    (pc \in {"report", "done"} /\ ~ReadFailed /\ DistinctInputs) =>
        /\ \A x \in Paths :
              /\ CountIn(hashed, heap, x) = CountIn(newStore, heap, x)
              /\ reads[x] = CountIn(newStore, heap, x)
        /\ \A k \in DOMAIN hashed.paths :
              \A i \in 1..hashed.paths[k].len :
                 LET f == Elems(heap, hashed.paths[k])[i]
                 IN  f.fullHash = k /\ k = Hash64(fs[f.path])

\* ---- C5
\* C5: only records of prefix groups of two or more are read in full, and a
\* run that completes has read each of them: the records read are exactly
\* those records (stated for input paths that are pairwise distinct).
ReadExactlySurvivors ==
    /\ \A x \in Paths : reads[x] > 0 => (Built /\ reads[x] <= Survivors(x))
    /\ \A w \in Workers :
          workers[w].pc \in {"read", "send", "failed"} => Survivors(workers[w].f.path) > 0
    /\ (proc = "exit0" /\ DistinctInputs) => \A x \in Paths : reads[x] = Survivors(x)

\* ---- C6
\* C6: AddFile(path) on a store that holds a record of that path returns the
\* duplicate-path error and leaves the groups of the store as they were.
DuplicatePathRejected ==
    [][(call'.op = "AddFile" /\ call'.path \in StorePaths(recv, heap)) =>
          (call'.err = ErrPathPresent /\ Groups(recv, heap)' = Groups(recv, heap))]_vars

\* ---- C7
\* C7: the final groups of a completed run are those the files determine,
\* whatever the schedule: the records of the prefix groups of two or more,
\* grouped by content, less the groups of one (stated for input paths that
\* are pairwise distinct).
ExpectedGroups ==
    LET bag(c) == [x \in Paths |-> IF fs[x] = c THEN Survivors(x) ELSE 0]
    IN  {bag(c) : c \in {d \in Contents : SumOver(bag(d), Paths) >= 2}}

FinalGroupingDeterministic ==
    (proc = "exit0" /\ DistinctInputs) => GroupBags(hashedStore, heap) = ExpectedGroups

\* ---- C8
\* C8: the store Prune returns has exactly the receiver's groups of two or
\* more records, same keys and same records; a store built by AddFile alone
\* has no empty group.
PruneKeepsLongGroups ==
    /\ \A k \in DOMAIN recv.paths : Len(Groups(recv, heap)[k]) >= 1
    /\ call.op = "Prune" =>
          LET G == Groups(recv, heap)
              R == Groups(pruned.store, heap)
          IN  /\ DOMAIN R = {k \in DOMAIN G : Len(G[k]) >= 2}
              /\ \A k \in DOMAIN R : R[k] = G[k] /\ Len(R[k]) >= 2

\* Prune has just dropped a group of one and kept a group of two or more
PruneDroppedAndKept ==
    /\ call.op = "Prune"
    /\ \E k \in DOMAIN recv.paths : recv.paths[k].len = 1
    /\ \E k \in DOMAIN recv.paths : recv.paths[k].len >= 2
    /\ pruned.store.paths # EmptyMap

\* ---- C9
\* what the receiver reports: its groups and its three counts
ReceiverReport ==
    <<Groups(recv, heap), FileCount(recv), FileSetCount(recv), TotalSizeDups(recv, heap)>>

\* C9: neither Prune nor a later AddFile on the store it returned changes
\* what the receiver reports.
PruneLeavesReceiver ==
    [][call'.op \in {"Prune", "AddFilePruned"} => ReceiverReport' = ReceiverReport]_vars

\* ---- C10
\* C10: once a read of hashWorker has failed the process does not end with
\* status 0 and prints nothing but an error (stated for input paths that are
\* pairwise distinct).
ReadFailureIsFatal ==
    [][(ReadFailed /\ DistinctInputs) =>
          /\ proc' # "exit0"
          /\ out' = out \/ (Len(out') = Len(out) + 1 /\ out'[Len(out')][1] = "error")]_vars

\* ---- C11
\* C11: AddFile returns an error value and leaves the groups of the store as
\* they were when the file cannot be opened or its size cannot be determined
\* (Stat fails), and returns no error when the read ends early at the end of a
\* file shorter than bytesPerFile.
AccessErrorReturned ==
    [][call'.op = "AddFile" =>
          /\ call'.io \in {"openfail", "statfail"} =>
                 (call'.err = ErrIO /\ Groups(recv, heap)' = Groups(recv, heap))
          /\ (call'.io = "ok" /\ Len(fs'[call'.path]) < recv.bytesPerFile) =>
                 call'.err = ErrNone]_vars

\* ---- C12
\* the records a store holds
Records(p, h) ==
    UNION {{Elems(h, p.paths[k])[i] : i \in 1..p.paths[k].len} : k \in DOMAIN p.paths}

\* C12: the prefix digest is taken over the first min(bytesPerFile, size)
\* bytes of the file and nothing else, so two records whose files differ in
\* those bytes (as byte sequences, length included) have different prefix
\* digests.
PrefixDigestOfExistingBytes ==
    \A f, g \in Records(recv, heap) :
        FirstBytes(fs[f.path], recv.bytesPerFile) # FirstBytes(fs[g.path], recv.bytesPerFile)
            => f.bytesHash # g.bytesHash

\* ---- C13
\* every call of AddFile that was made has returned
AllReturned == \A x \in Paths : callers[x].pc \in {"idle", "returned"}

\* C13: once all the concurrent calls of AddFile (paths pairwise distinct)
\* have returned, the store holds one record for each path whose call
\* returned nil and none for any other path, each record being that of its
\* file and lying in the group keyed by its prefix digest.
ConcurrentAddFileSafe ==
    AllReturned =>
        /\ \A x \in Paths :
              CountIn(recv, heap, x) =
                  IF callers[x].pc = "returned" /\ callers[x].err = ErrNone THEN 1 ELSE 0
        /\ \A k \in DOMAIN recv.paths :
              \A i \in 1..recv.paths[k].len :
                 LET f == Elems(heap, recv.paths[k])[i]
                 IN  /\ f.bytesHash = k
                     /\ f = callers[f.path].f
                     /\ f.size = Len(fs[f.path])

\* every path was added by a call that returned nil, and two of the records
\* share a group
ConcurrentAddsReturned ==
    /\ \A x \in Paths : callers[x].pc = "returned" /\ callers[x].err = ErrNone
    /\ \E k \in DOMAIN recv.paths : recv.paths[k].len >= 2
    /\ Cardinality(DOMAIN recv.paths) >= 2

\* ---- C14
\* the records of a group have one size
CommonSize(g) == \A i, j \in 1..Len(g) : g[i].size = g[j].size

\* the stores whose groups all have one size each
SameSizeGroups(p, h) == \A k \in DOMAIN p.paths : CommonSize(Elems(h, p.paths[k]))

\* the sizes of all the records of a store but one of each group, summed
DuplicateWeight(p, h) ==
    SumOver([k \in DOMAIN p.paths |->
                SumOver([i \in 2..p.paths[k].len |-> Elems(h, p.paths[k])[i].size],
                        2..p.paths[k].len)],
            DOMAIN p.paths)

GroupPaths(p, h) ==
    {{Elems(h, p.paths[k])[i].path : i \in 1..p.paths[k].len} : k \in DOMAIN p.paths}

\* C15: a zero-byte file that was opened is added to the store without
\* error, and a completed run has any two zero-byte files among its inputs
\* together in one group of the final store (stated for input paths that are
\* pairwise distinct).
ZeroByteFilesGrouped ==
    /\ \A x \in Paths : fs[x] = <<>> => x \in StorePaths(store, heap)
    /\ (proc = "exit0" /\ DistinctInputs) =>
          \A x, y \in Paths :
             (x # y /\ fs[x] = <<>> /\ fs[y] = <<>>) =>
                 \E g \in GroupPaths(hashedStore, heap) : {x, y} \subseteq g

\* ---- C16
\* the files a, b, c are the inputs, a and b with the same bytes and c with
\* other bytes of the same length ("hello", "hello", "world")
HelloHelloWorld(a, b, c) ==
    /\ Cardinality({a, b, c}) = 3
    /\ Built /\ DistinctInputs
    /\ StorePaths(store, heap) = {a, b, c}
    /\ fs[a] = fs[b] /\ fs[c] # fs[a]
    /\ Len(fs[c]) = Len(fs[a]) /\ Len(fs[a]) >= 1

\* C16: with inputs "hello", "hello", "world" the prefix-digest store holds 3
\* files before pruning, the pruned prefix-digest store has at least one
\* group, and a completed run ends with a final store of exactly one group,
\* of the two records of a and b.
ScenarioHelloWorld ==
    \A a, b, c \in Paths :
        HelloHelloWorld(a, b, c) =>
            /\ FileCount(store) = 3
            /\ pc \notin {"summary", "prune"} => FileSetCount(newStore) >= 1
            /\ proc = "exit0" =>
                  /\ GroupPaths(hashedStore, heap) = {{a, b}}
                  /\ FileCount(hashedStore) = 2
                  /\ FileSetCount(hashedStore) = 1

\* ---- C17
\* the summaries printed so far, in the order printed
Summaries == SelectSeq(out, LAMBDA e : e[1] = "summary")

\* C17: whichever the path source, the first summary printed is that of the
\* unpruned prefix-digest store, the second that of the pruned prefix-digest
\* store, and a third is printed only with -summarize, after the collecting
\* loop, and is that of the final store; a completed run has printed them all.
SummariesInOrder ==
    LET S == Summaries
    IN  /\ Len(S) <= 3
        /\ Len(S) >= 1 => S[1][2] = Summarize(store, heap)
        /\ Len(S) >= 2 => S[2][2] = Summarize(newStore, heap)
        /\ Len(S) = 3 =>
              /\ flags.summarize /\ pc = "done"
              /\ S[3][2] = Summarize(hashedStore, heap)
        /\ proc = "exit0" => Len(S) = IF flags.summarize THEN 3 ELSE 2

\* ---- C18
\* the confirmation stage has run to completion: the feeder has closed hashq,
\* every worker of the pool has returned, the closer has closed resultq and
\* main is past its collecting loop
StageComplete ==
    /\ feeder.pc = "done" /\ hashqClosed
    /\ \A w \in 1..flags.numWorkers : workers[w].pc = "done"
    /\ closer = "done" /\ resultqClosed
    /\ pc \in {"report", "done"}

\* C18: under fair scheduling, once the stage is started (closer and feeder
\* running, the workers about to be spawned) it runs to completion unless a
\* read fails, whatever the number of records to hash.
StageRunsToCompletion == (pc = "spawn") ~> (StageComplete \/ ReadFailed)

\* ---- C19
\* two contents differ at a position among the first n that both have
DifferWithin(c, d, n) ==
    \E i \in 1..n : i <= Len(c) /\ i <= Len(d) /\ c[i] # d[i]

\* the key NewPathStore(paths, n) files a record under
KeyWith(f, n) == FileFromPath(f.path, n, fs[f.path], "ok").file.bytesHash

\* C19: whichever the path source, the prefix-digest store groups its records
\* as NewPathStore(paths, N) groups them, N being the value of -bytes, so
\* two files that differ within their first N bytes share no group.
PrefixLengthHonoured ==
    /\ \A f, g \in Records(store, heap) :
          (f.bytesHash = g.bytesHash) <=> (KeyWith(f, flags.numBytes) = KeyWith(g, flags.numBytes))
    /\ \A k \in DOMAIN store.paths :
          \A i, j \in 1..store.paths[k].len :
             LET g == Elems(heap, store.paths[k])
             IN  ~DifferWithin(fs[g[i].path], fs[g[j].path], flags.numBytes)

====
